---- MODULE Spec2Model ----
(***************************************************************************)
(* Model of go-adstxt-crawler: the redirect policy of crawler.go           *)
(* (handleRedirect), the response validation (readBody, parseExpires),     *)
(* and the fetch loop and batch entry point that drive them.               *)
(*                                                                         *)
(* Strings are sequences of lexical tokens: a URL "http://a.example/ads.txt"*)
(* is <<"http", "://", "a.example", "/ads.txt">>.  String equality,        *)
(* concatenation, HasSuffix and Index are computed on these sequences.     *)
(***************************************************************************)
EXTENDS Integers, Sequences, FiniteSets, TLC

\* ------------------------------------------------------------------ bounds
\* Number of responses of a sequence that the history variable trace keeps.
MaxTrace == 2

\* ------------------------------------------------------------ state
VARIABLES
    api,         \* the entry point called: "Get" or "GetMultiple"
    requests,    \* the Requests of the call
    pc,          \* where each sequence is
    state,       \* each sequence's redirect state
    outcomes,    \* the outcomes each sequence has produced
    handled,     \* how many times the handler was invoked for each request
    bodyRead,    \* whether a response body of the sequence was read
    inflight,    \* how many requests of each sequence are on the wire
    issued,      \* history: the URLs each sequence has requested
    sent,        \* history: the URL of the last request each sequence issued
    followed,    \* history: the Location of the last redirect each sequence
                 \* followed
    last,        \* history: the last response each sequence received
    trace,       \* history: the first MaxTrace responses each sequence of a
                 \* GetMultiple call received
    truncated    \* history: whether the sequence received more than trace holds

vars ==
    <<api, requests, pc, state, outcomes, handled, bodyRead, inflight, issued,
      sent, followed, last, trace, truncated>>

\* ------------------------------------------------------------- the strings
SchemeTokens == {"http", "https"}
HostTokens == {"a.example", "www.a.example", "b.example", "c.example"}
PortTokens == {":8080"}
PathTokens == {"/ads.txt", "/page"}

EmptyString == <<>>

U_A == <<"http", "://", "a.example">>
U_Aads == <<"http", "://", "a.example", "/ads.txt">>
U_Wads == <<"http", "://", "www.a.example", "/ads.txt">>
U_Aport == <<"http", "://", "a.example", ":8080">>
U_B == <<"http", "://", "b.example">>
U_Bads == <<"http", "://", "b.example", "/ads.txt">>
U_Bpage == <<"http", "://", "b.example", "/page">>
U_Cads == <<"http", "://", "c.example", "/ads.txt">>
U_RelAds == <<"/ads.txt">>
U_NoSchemeAds == <<"a.example", "/ads.txt">>
U_NoSchemePage == <<"a.example", "/page">>

\* strings.HasSuffix(s, suffix)
HasSuffix(s, suffix) ==
    /\ Len(s) >= Len(suffix)
    /\ SubSeq(s, Len(s) - Len(suffix) + 1, Len(s)) = suffix

\* strings.Index(s, sub): the first position (from 0) where sub occurs, else -1
Index(s, sub) ==
    LET hits == {i \in 0..(Len(s) - Len(sub)) : SubSeq(s, i + 1, i + Len(sub)) = sub}
    IN IF hits = {} THEN -1 ELSE CHOOSE i \in hits : \A j \in hits : i <= j

\* ------------------------------------------------------------ net/url
HasScheme(s) == Len(s) >= 2 /\ s[1] \in SchemeTokens /\ s[2] = "://"

\* url.Parse(rawurl): scheme, host (with port), hostname (without port), path.
\* Without a scheme the whole string is the path and the host is empty.
Parse(rawurl) ==
    IF HasScheme(rawurl)
    THEN LET rest == SubSeq(rawurl, 3, Len(rawurl))
             hasHost == Len(rest) >= 1 /\ rest[1] \in HostTokens
             hasPort == hasHost /\ Len(rest) >= 2 /\ rest[2] \in PortTokens
             host == IF hasPort THEN SubSeq(rest, 1, 2)
                     ELSE IF hasHost THEN SubSeq(rest, 1, 1) ELSE EmptyString
         IN [err |-> FALSE, Scheme |-> <<rawurl[1]>>, Host |-> host,
             Hostname |-> IF hasHost THEN <<rest[1]>> ELSE EmptyString,
             Path |-> SubSeq(rest, Len(host) + 1, Len(rest))]
    ELSE [err |-> FALSE, Scheme |-> EmptyString, Host |-> EmptyString,
          Hostname |-> EmptyString, Path |-> rawurl]

\* url.ParseRequestURI(rawurl): an absolute URI or an absolute path; fails on
\* the empty string and on a string with neither a scheme nor a leading "/".
ParseRequestURI(rawurl) ==
    IF rawurl = EmptyString THEN [err |-> TRUE]
    ELSE IF ~HasScheme(rawurl) /\ rawurl[1] \notin PathTokens THEN [err |-> TRUE]
    ELSE [err |-> FALSE]

\* ------------------------------------------------------------ root domain
\* The registrable domain of each host (the public-suffix lookup).
RootOfHost ==
    [h \in HostTokens |->
        CASE h = "a.example" -> "a.example"
          [] h = "www.a.example" -> "a.example"
          [] h = "b.example" -> "b.example"
          [] h = "c.example" -> "c.example"]

\* rootDomain(rawurl): the registrable domain of the URL's host; an error when
\* the string names no host.
rootDomain(rawurl) ==
    LET host == IF HasScheme(rawurl) THEN Parse(rawurl).Hostname
                ELSE IF Len(rawurl) >= 1 /\ rawurl[1] \in HostTokens THEN <<rawurl[1]>>
                ELSE EmptyString
    IN IF host = EmptyString THEN [d |-> "", err |-> TRUE]
       ELSE [d |-> RootOfHost[host[1]], err |-> FALSE]

\* ------------------------------------------------------------ errors
\* An error is its format string and its arguments, each argument a string.
NoError == [fmt |-> "nil", args |-> <<>>]
Errorf(fmt, args) == [fmt |-> fmt, args |-> args]
IsError(e) == e.fmt # "nil"

\* ------------------------------------------------------------ crawler.go
\* scopeViolation without the comparison of the two root domains: every
\* redirect out of the original root domain from a URL out of it is refused.
scopeViolation_prevOnly(req, d, prevDomain) ==
    d # req.Domain /\ prevDomain # req.Domain

\* The scope test without the exemption of the original root domain: off the
\* original root domain, every destination outside the domain of the URL
\* redirected from is out of scope, the original root domain included.
scopeViolation_noWayBack(req, d, prevDomain) ==
    prevDomain # req.Domain /\ prevDomain # d

\* The single-hop rule of handleRedirect: a redirect to root domain d, out of
\* the original root domain, is refused when the URL redirected from is
\* already out of the original root domain and in another root domain than d.
scopeViolation(req, d, prevDomain) ==
    d # req.Domain /\ prevDomain # req.Domain /\ prevDomain # d

\* The test of the destination applied to every destination, those ending
\* with "/ads.txt" included.
checkAdsTxtTarget_alwaysValidates(req, redirect) ==
    LET u == Parse(redirect)
    IN IF ParseRequestURI(redirect).err
       THEN [url |-> EmptyString,
             err |-> Errorf("errRedirctToInvalidAdsTxt", <<<<req.Domain>>, req.URL, redirect>>)]
       ELSE IF u.err \/ u.Scheme = EmptyString \/ u.Host = EmptyString
       THEN [url |-> EmptyString,
             err |-> Errorf("errRedirctToInvalidAdsTxt", <<<<req.Domain>>, req.URL, redirect>>)]
       ELSE IF u.Scheme \o <<"://">> \o u.Hostname = redirect
       THEN [url |-> EmptyString,
             err |-> Errorf("errRedirctToMainPage", <<<<req.Domain>>, req.URL, redirect>>)]
       ELSE [url |-> redirect, err |-> NoError]

\* The test of the destination relying on the error of url.Parse alone, with
\* neither url.ParseRequestURI nor the look at the scheme and the host.
checkAdsTxtTarget_parseErrOnly(req, redirect) ==
    LET u == Parse(redirect)
    IN IF ~HasSuffix(redirect, <<"/ads.txt">>)
       THEN IF u.err
            THEN [url |-> EmptyString,
                  err |-> Errorf("errRedirctToInvalidAdsTxt", <<<<req.Domain>>, req.URL, redirect>>)]
            ELSE IF u.Scheme \o <<"://">> \o u.Hostname = redirect
            THEN [url |-> EmptyString,
                  err |-> Errorf("errRedirctToMainPage", <<<<req.Domain>>, req.URL, redirect>>)]
            ELSE [url |-> redirect, err |-> NoError]
       ELSE [url |-> redirect, err |-> NoError]

\* The last part of handleRedirect: a destination that does not end with
\* "/ads.txt" must be an absolute URL and must not be a bare scheme://hostname.
checkAdsTxtTarget(req, redirect) ==
    LET u == Parse(redirect)
    IN IF ~HasSuffix(redirect, <<"/ads.txt">>)
       THEN IF ParseRequestURI(redirect).err
            THEN [url |-> EmptyString,
                  err |-> Errorf("errRedirctToInvalidAdsTxt", <<<<req.Domain>>, req.URL, redirect>>)]
            ELSE IF u.err \/ u.Scheme = EmptyString \/ u.Host = EmptyString
            THEN [url |-> EmptyString,
                  err |-> Errorf("errRedirctToInvalidAdsTxt", <<<<req.Domain>>, req.URL, redirect>>)]
            ELSE IF u.Scheme \o <<"://">> \o u.Hostname = redirect
            THEN [url |-> EmptyString,
                  err |-> Errorf("errRedirctToMainPage", <<<<req.Domain>>, req.URL, redirect>>)]
            ELSE [url |-> redirect, err |-> NoError]
       ELSE [url |-> redirect, err |-> NoError]

\* handleRedirect with the module-wide redirect counter of the source enabled
\* (a maximum of one redirect per destination, counted over all sequences).
handleRedirect_counted(req, res) ==
    LET redirect == res.Location
        rd == rootDomain(redirect)
        prevDomain == rootDomain(req.URL).d
        err(fmt) == [url |-> EmptyString,
                     err |-> Errorf(fmt, <<<<req.Domain>>, req.URL, redirect>>)]
        result ==
            IF redirect = req.URL THEN err("errRedirectSameDomain")
            ELSE IF \E j \in DOMAIN state : redirect \in state[j].VisitedURLs
            THEN err("errInfiniteRedirect")
            ELSE IF rd.err THEN err("errFailToParseRedirect")
            ELSE IF scopeViolation(req, rd.d, prevDomain)
            THEN [url |-> EmptyString,
                  err |-> Errorf("errRedirectToDifferentDomain",
                                 <<<<req.Domain>>, <<prevDomain>>, <<rd.d>>>>)]
            ELSE checkAdsTxtTarget(req, redirect)
    IN [url |-> result.url, err |-> result.err, req |-> req]

\* handleRedirect with the same-location check made last instead of first.
handleRedirect_loopLast(req, res) ==
    LET redirect == res.Location
        rd == rootDomain(redirect)
        prevDomain == rootDomain(req.URL).d
        err(fmt) == [url |-> EmptyString,
                     err |-> Errorf(fmt, <<<<req.Domain>>, req.URL, redirect>>)]
        result ==
            IF rd.err THEN err("errFailToParseRedirect")
            ELSE IF scopeViolation(req, rd.d, prevDomain)
            THEN [url |-> EmptyString,
                  err |-> Errorf("errRedirectToDifferentDomain",
                                 <<<<req.Domain>>, <<prevDomain>>, <<rd.d>>>>)]
            ELSE IF IsError(checkAdsTxtTarget(req, redirect).err)
            THEN checkAdsTxtTarget(req, redirect)
            ELSE IF redirect = req.URL THEN err("errRedirectSameDomain")
            ELSE checkAdsTxtTarget(req, redirect)
    IN [url |-> result.url, err |-> result.err, req |-> req]

\* handleRedirect dropping the error of rootDomain (d, _ := rootDomain(redirect)).
handleRedirect_ignoresResolveError(req, res) ==
    LET redirect == res.Location
        rd == rootDomain(redirect)
        d == rd.d
        prevDomain == rootDomain(req.URL).d
        result ==
            IF redirect = req.URL
            THEN [url |-> EmptyString,
                  err |-> Errorf("errRedirectSameDomain", <<<<req.Domain>>, req.URL, redirect>>)]
            ELSE IF scopeViolation(req, d, prevDomain)
            THEN [url |-> EmptyString,
                  err |-> Errorf("errRedirectToDifferentDomain", <<<<req.Domain>>, <<prevDomain>>, <<d>>>>)]
            ELSE checkAdsTxtTarget(req, redirect)
    IN [url |-> result.url, err |-> result.err, req |-> req]

\* handleRedirect handing back the destination together with the error when
\* it rejects (return redirect, fmt.Errorf(...)).
handleRedirect_urlWithError(req, res) ==
    LET redirect == res.Location
        rd == rootDomain(redirect)
        d == rd.d
        prevDomain == rootDomain(req.URL).d
        result ==
            IF redirect = req.URL
            THEN [url |-> EmptyString,
                  err |-> Errorf("errRedirectSameDomain", <<<<req.Domain>>, req.URL, redirect>>)]
            ELSE IF rd.err
            THEN [url |-> EmptyString,
                  err |-> Errorf("errFailToParseRedirect", <<<<req.Domain>>, req.URL, redirect>>)]
            ELSE IF scopeViolation(req, d, prevDomain)
            THEN [url |-> EmptyString,
                  err |-> Errorf("errRedirectToDifferentDomain", <<<<req.Domain>>, <<prevDomain>>, <<d>>>>)]
            ELSE checkAdsTxtTarget(req, redirect)
    IN [url |-> redirect, err |-> result.err, req |-> req]

\* handleRedirect handing back the URL of the request, not the destination,
\* when it allows the redirect (return req.URL, nil).
handleRedirect_returnsCurrent(req, res) ==
    LET redirect == res.Location
        rd == rootDomain(redirect)
        d == rd.d
        prevDomain == rootDomain(req.URL).d
        result ==
            IF redirect = req.URL
            THEN [url |-> EmptyString,
                  err |-> Errorf("errRedirectSameDomain", <<<<req.Domain>>, req.URL, redirect>>)]
            ELSE IF rd.err
            THEN [url |-> EmptyString,
                  err |-> Errorf("errFailToParseRedirect", <<<<req.Domain>>, req.URL, redirect>>)]
            ELSE IF scopeViolation(req, d, prevDomain)
            THEN [url |-> EmptyString,
                  err |-> Errorf("errRedirectToDifferentDomain", <<<<req.Domain>>, <<prevDomain>>, <<d>>>>)]
            ELSE checkAdsTxtTarget(req, redirect)
    IN [url |-> IF IsError(result.err) THEN EmptyString ELSE req.URL,
        err |-> result.err, req |-> req]

\* handleRedirect taking the root domain of a destination it allows as the
\* domain of the request from then on (req.Domain = d).
handleRedirect_reanchors(req, res) ==
    LET redirect == res.Location
        rd == rootDomain(redirect)
        d == rd.d
        prevDomain == rootDomain(req.URL).d
        result ==
            IF redirect = req.URL
            THEN [url |-> EmptyString,
                  err |-> Errorf("errRedirectSameDomain", <<<<req.Domain>>, req.URL, redirect>>)]
            ELSE IF rd.err
            THEN [url |-> EmptyString,
                  err |-> Errorf("errFailToParseRedirect", <<<<req.Domain>>, req.URL, redirect>>)]
            ELSE IF scopeViolation(req, d, prevDomain)
            THEN [url |-> EmptyString,
                  err |-> Errorf("errRedirectToDifferentDomain", <<<<req.Domain>>, <<prevDomain>>, <<d>>>>)]
            ELSE checkAdsTxtTarget(req, redirect)
    IN [url |-> result.url, err |-> result.err,
        req |-> IF IsError(result.err) THEN req ELSE [req EXCEPT !.Domain = d]]

\* handleRedirect(req, res): the redirect destination to follow, or an error.
\* req is [URL, Domain], with URL the URL being fetched; res carries the
\* Location header.  The result also holds the Request as the call leaves it:
\* req is passed by pointer and handleRedirect assigns to none of its fields.
handleRedirect(req, res) ==
    LET redirect == res.Location
        rd == rootDomain(redirect)
        d == rd.d
        prevDomain == rootDomain(req.URL).d
        result ==
            IF redirect = req.URL
            THEN [url |-> EmptyString,
                  err |-> Errorf("errRedirectSameDomain", <<<<req.Domain>>, req.URL, redirect>>)]
            ELSE IF rd.err
            THEN [url |-> EmptyString,
                  err |-> Errorf("errFailToParseRedirect", <<<<req.Domain>>, req.URL, redirect>>)]
            ELSE IF scopeViolation(req, d, prevDomain)
            THEN [url |-> EmptyString,
                  err |-> Errorf("errRedirectToDifferentDomain", <<<<req.Domain>>, <<prevDomain>>, <<d>>>>)]
            ELSE checkAdsTxtTarget(req, redirect)
    IN [url |-> result.url, err |-> result.err, req |-> req]

\* readBody accepting a Content-Type that contains "text/plain" anywhere.
readBody_contains(req, res) ==
    LET contentType == res.ContentType
    IN IF Index(contentType, <<"text/plain">>) = -1
       THEN [body |-> EmptyString, read |-> FALSE,
             err |-> Errorf("errHTTPBadContentType", <<req.URL, contentType>>)]
       ELSE [body |-> res.Body, read |-> TRUE, err |-> NoError]

\* readBody(req, res): the body, or a content-type error; read tells whether
\* the response body was read (ioutil.ReadAll was called).
readBody(req, res) ==
    LET contentType == res.ContentType
    IN IF Index(contentType, <<"text/plain">>) # 0
       THEN [body |-> EmptyString, read |-> FALSE,
             err |-> Errorf("errHTTPBadContentType", <<req.URL, contentType>>)]
       ELSE [body |-> res.Body, read |-> TRUE, err |-> NoError]

\* http.ParseTime(text): only a well-formed HTTP date parses.
ParseTime(text) ==
    IF text = <<"Thu, 01 Jan 2026 00:00:00 GMT">>
    THEN [time |-> text, err |-> FALSE]
    ELSE [time |-> EmptyString, err |-> TRUE]

\* parseExpires with the result of the parse taken without looking at its
\* error: a header that does not parse is handed on as it came.
parseExpires_noParseCheck(res) ==
    LET expires == res.Expires
    IN IF Len(expires) = 0 THEN [time |-> EmptyString, err |-> TRUE]
       ELSE [time |-> expires, err |-> FALSE]

\* parseExpires(res): the parsed Expires header, or an error when it is absent
\* or does not parse.
parseExpires(res) ==
    LET expires == res.Expires
    IN IF Len(expires) = 0 THEN [time |-> EmptyString, err |-> TRUE]
       ELSE IF ParseTime(expires).err THEN [time |-> EmptyString, err |-> TRUE]
       ELSE [time |-> ParseTime(expires).time, err |-> FALSE]

\* ------------------------------------------------------------ messages
\* An HTTP exchange as the client sees it: ok = FALSE is a transport error
\* (connection failure, timeout, malformed response).
Resp(status, location, contentType, expires, body) ==
    [ok |-> TRUE, StatusCode |-> status, Location |-> location,
     ContentType |-> contentType, Expires |-> expires, Body |-> body]

\* Before the first response of a sequence.
NoResponseYet ==
    [ok |-> FALSE, StatusCode |-> -1, Location |-> EmptyString,
     ContentType |-> EmptyString, Expires |-> EmptyString, Body |-> EmptyString]

TransportFailure ==
    [ok |-> FALSE, StatusCode |-> 0, Location |-> EmptyString,
     ContentType |-> EmptyString, Expires |-> EmptyString, Body |-> EmptyString]

AdsBody == <<"google.com, pub-1, DIRECT">>
HTTPDate == <<"Thu, 01 Jan 2026 00:00:00 GMT">>

Locations ==
    {EmptyString, U_A, U_Aads, U_Wads, U_Aport, U_B, U_Bads, U_Bpage, U_Cads,
     U_RelAds, U_NoSchemeAds, U_NoSchemePage}

ContentTypes ==
    {EmptyString, <<"text/plain">>, <<"text/plain", "; charset=utf-8">>,
     <<"application/octet-stream">>, <<" ", "text/plain">>}

\* Every response a remote host may give to a single fetch.
AllResponses ==
    {TransportFailure}
    \cup {Resp(302, l, EmptyString, EmptyString, EmptyString) : l \in Locations}
    \cup {Resp(s, U_Aads, EmptyString, EmptyString, EmptyString) : s \in {301, 307}}
    \cup {Resp(s, EmptyString, EmptyString, EmptyString, EmptyString) : s \in {404, 500}}
    \cup {Resp(200, EmptyString, c, EmptyString, AdsBody) : c \in ContentTypes}
    \cup {Resp(200, EmptyString, <<"text/plain">>, e, AdsBody) : e \in {HTTPDate, <<"tomorrow">>}}

\* The responses explored when several sequences run concurrently: every
\* sequence may fail in transport, succeed or get a bad content type; the
\* first two may be redirected to www.a.example, the first also back to
\* a.example.
FinalResponses ==
    {TransportFailure,
     Resp(200, EmptyString, <<"text/plain">>, EmptyString, AdsBody),
     Resp(200, EmptyString, <<"application/octet-stream">>, EmptyString, AdsBody)}

BatchResponses(i) ==
    FinalResponses
    \cup (IF i <= 2 THEN {Resp(302, U_Wads, EmptyString, EmptyString, EmptyString)} ELSE {})
    \cup (IF i = 1 THEN {Resp(302, U_Aads, EmptyString, EmptyString, EmptyString)} ELSE {})

\* ------------------------------------------------------------ requests
\* NewRequest(rawurl): the Request of a host URL; Domain is the root domain of
\* the original URL.  Only URLs whose root domain resolves make a Request.
NewRequest(rawurl) == [URL |-> rawurl, Domain |-> rootDomain(rawurl).d]

\* URLs a single Get is called with.
SingleURLs == {U_A, U_Aads}

\* The requests of a GetMultiple call (three hosts, as in examples/multiple).
BatchRequests == <<NewRequest(U_Aads), NewRequest(U_Bads), NewRequest(U_Cads)>>

\* ------------------------------------------------------------ fetch sequence
NoResponse ==
    [FinalURL |-> EmptyString, StatusCode |-> 0, ContentType |-> EmptyString,
     Body |-> EmptyString, Expires |-> EmptyString]

\* An outcome is a Response with a nil error, or no Response with an error.
Success(response) == [res |-> response, err |-> NoError]
Failure(err) == [res |-> NoResponse, err |-> err]

\* The per-sequence redirect state at the start of a sequence.
NewRedirectState(req) ==
    [CurrentURL |-> req.URL, CrossDomainHopUsed |-> FALSE, VisitedURLs |-> {}]

IsRedirect(res) == res.StatusCode \in {301, 302, 307}
Is2xx(res) == res.StatusCode >= 200 /\ res.StatusCode < 300

\* What one response does to a sequence: the next redirect state, the outcome
\* if the sequence ends here (out has zero or one element), whether the body
\* was read, and the Request as the evaluation of a redirect left it.
onResponse(req, st, res) ==
    LET cur == [URL |-> st.CurrentURL, Domain |-> req.Domain]
        hr == handleRedirect(cur, res)
        rb == readBody(cur, res)
        ex == parseExpires(res)
        keep == [st |-> st, out |-> <<>>, read |-> FALSE, req |-> req]
        after == [req EXCEPT !.Domain = hr.req.Domain]
    IN IF ~res.ok
       THEN [keep EXCEPT !.out = <<Failure(Errorf("errHTTPClientError",
                                        <<<<req.Domain>>, st.CurrentURL>>))>>]
       ELSE IF IsRedirect(res)
       THEN IF IsError(hr.err)
            THEN [keep EXCEPT !.out = <<Failure(hr.err)>>,
                              !.st = [st EXCEPT !.CurrentURL = hr.req.URL],
                              !.req = after]
            ELSE [keep EXCEPT
                    !.st = [CurrentURL |-> hr.url,
                            CrossDomainHopUsed |->
                                st.CrossDomainHopUsed
                                \/ rootDomain(hr.url).d # req.Domain,
                            VisitedURLs |-> st.VisitedURLs \cup {hr.url}],
                    !.req = after]
       ELSE IF ~Is2xx(res)
       THEN [keep EXCEPT !.out = <<Failure(Errorf("errHTTPGeneralError",
                                        <<<<req.Domain>>, st.CurrentURL>>))>>]
       ELSE IF IsError(rb.err)
       THEN [keep EXCEPT !.out = <<Failure(rb.err)>>]
       ELSE [keep EXCEPT
               !.out = <<Success([FinalURL |-> st.CurrentURL,
                                  StatusCode |-> res.StatusCode,
                                  ContentType |-> res.ContentType,
                                  Body |-> rb.body,
                                  Expires |-> IF ex.err THEN EmptyString ELSE ex.time])>>,
               !.read = rb.read]

\* ------------------------------------------------------------ the run
Sequences == DOMAIN requests

Responses(i) == IF api = "Get" THEN AllResponses ELSE BatchResponses(i)

Init ==
    /\ \/ api = "Get" /\ requests \in {<<NewRequest(u)>> : u \in SingleURLs}
       \/ api = "GetMultiple" /\ requests = BatchRequests
    /\ pc = [i \in DOMAIN requests |-> IF api = "Get" THEN "send" ELSE "spawn"]
    /\ state = [i \in DOMAIN requests |-> NewRedirectState(requests[i])]
    /\ outcomes = [i \in DOMAIN requests |-> <<>>]
    /\ handled = [i \in DOMAIN requests |-> 0]
    /\ bodyRead = [i \in DOMAIN requests |-> FALSE]
    /\ inflight = [i \in DOMAIN requests |-> 0]
    /\ issued = [i \in DOMAIN requests |-> {}]
    /\ sent = [i \in DOMAIN requests |-> EmptyString]
    /\ followed = [i \in DOMAIN requests |-> EmptyString]
    /\ last = [i \in DOMAIN requests |-> NoResponseYet]
    /\ trace = [i \in DOMAIN requests |-> <<>>]
    /\ truncated = [i \in DOMAIN requests |-> FALSE]

\* sendRequest fails without a request on the wire when the URL has no scheme
\* or no host (client.Do refuses it).
cannotSend(url) == Parse(url).Scheme = EmptyString \/ Parse(url).Host = EmptyString

\* GetMultiple starts the goroutine of request i.
Spawn(i) ==
    /\ pc[i] = "spawn"
    /\ pc' = [pc EXCEPT ![i] = "send"]
    /\ UNCHANGED <<api, requests, state, outcomes, handled, bodyRead, inflight,
                   issued, sent, followed, last, trace, truncated>>

\* sendRequest up to the point where the GET for the current URL is on the
\* wire.  A URL the client cannot request (no scheme or no host) is an error of
\* client.Do and nothing is sent.
SendRequest(i) ==
    /\ pc[i] = "send"
    /\ LET url == state[i].CurrentURL
       IN IF cannotSend(url)
          THEN /\ outcomes' = [outcomes EXCEPT ![i] = Append(@,
                       Failure(Errorf("errHTTPClientError",
                                      <<<<requests[i].Domain>>, url>>)))]
               /\ pc' = [pc EXCEPT ![i] = "returned"]
               /\ UNCHANGED <<inflight, issued, sent>>
          ELSE /\ issued' = [issued EXCEPT ![i] = @ \cup {url}]
               /\ sent' = [sent EXCEPT ![i] = url]
               /\ inflight' = [inflight EXCEPT ![i] = @ + 1]
               /\ pc' = [pc EXCEPT ![i] = "recv"]
               /\ UNCHANGED outcomes
    /\ UNCHANGED <<api, requests, state, handled, bodyRead, followed, last, trace,
                   truncated>>

\* client.Do returns res for the request in flight and the sequence acts on it.
Receive(i, res) ==
    /\ pc[i] = "recv"
    /\ LET r == onResponse(requests[i], state[i], res)
       IN /\ state' = [state EXCEPT ![i] = r.st]
          /\ requests' = [requests EXCEPT ![i] = r.req]
          /\ followed' = [followed EXCEPT ![i] =
                              IF res.ok /\ IsRedirect(res) /\ r.out = <<>>
                              THEN res.Location ELSE @]
          /\ outcomes' = [outcomes EXCEPT ![i] = @ \o r.out]
          /\ bodyRead' = [bodyRead EXCEPT ![i] = @ \/ r.read]
          /\ pc' = [pc EXCEPT ![i] = IF r.out = <<>> THEN "send" ELSE "returned"]
    /\ last' = [last EXCEPT ![i] = res]
    /\ inflight' = [inflight EXCEPT ![i] = @ - 1]
    /\ IF api = "Get"
       THEN UNCHANGED <<trace, truncated>>
       ELSE IF Len(trace[i]) < MaxTrace
       THEN trace' = [trace EXCEPT ![i] = Append(@, res)] /\ UNCHANGED truncated
       ELSE truncated' = [truncated EXCEPT ![i] = TRUE] /\ UNCHANGED trace
    /\ UNCHANGED <<api, handled, issued, sent>>

\* The goroutine of request i hands its outcome to the handler.
Handle(i) ==
    /\ api = "GetMultiple"
    /\ pc[i] = "returned"
    /\ handled' = [handled EXCEPT ![i] = @ + 1]
    /\ pc' = [pc EXCEPT ![i] = "done"]
    /\ UNCHANGED <<api, requests, state, outcomes, bodyRead, inflight, issued,
                   sent, followed, last, trace, truncated>>

Next ==
    \E i \in Sequences :
        \/ Spawn(i)
        \/ SendRequest(i)
        \/ \E res \in Responses(i) : Receive(i, res)
        \/ Handle(i)

Spec == Init /\ [][Next]_vars

\* Every goroutine keeps running and every HTTP call returns (a response, or
\* an error after at most the client timeout).
Fairness ==
    \A i \in 1..3 :
        /\ WF_vars(i \in Sequences /\ Spawn(i))
        /\ WF_vars(i \in Sequences /\ SendRequest(i))
        /\ WF_vars(i \in Sequences /\ \E res \in Responses(i) : Receive(i, res))
        /\ WF_vars(i \in Sequences /\ Handle(i))

FairSpec == Init /\ [][Next]_vars /\ Fairness

\* ------------------------------------------------------------ properties
\* Step predicates: sequence i acts on a response in this step.
Receives(i) == pc[i] = "recv" /\ pc'[i] # "recv"
\* ... on a redirect response, whose Location is the target,
Evaluates(i) == Receives(i) /\ last'[i].ok /\ IsRedirect(last'[i])
Target(i) == last'[i].Location
\* ... which the policy allows (the sequence goes on to request the target),
Allows(i) == Evaluates(i) /\ pc'[i] = "send"
\* ... or rejects with the error of the given format.
Rejects(i) == Evaluates(i) /\ pc'[i] = "returned"
RejectsAs(i, fmt) == Rejects(i) /\ outcomes'[i][Len(outcomes'[i])].err.fmt = fmt

DomainOf(url) == rootDomain(url).d
Resolves(url) == ~rootDomain(url).err

\* C1: once a sequence has used its cross-domain hop, every redirect whose
\* target root domain differs from both Request.Domain and the root domain of
\* the URL redirected from is rejected, so at most one hop to a root domain
\* outside Request.Domain is ever allowed.
C1_SingleCrossDomainHop ==
    [][\A i \in Sequences :
          (/\ Evaluates(i)
           /\ state[i].CrossDomainHopUsed
           /\ Resolves(Target(i))
           /\ DomainOf(Target(i)) # requests[i].Domain
           /\ DomainOf(Target(i)) # DomainOf(state[i].CurrentURL))
          => Rejects(i)]_vars

\* C2: within one sequence no exact URL is requested twice.
C2_NoURLRequestedTwice ==
    [][\A i \in Sequences :
          (pc[i] = "send" /\ pc'[i] = "recv") => state[i].CurrentURL \notin issued[i]]_vars

\* C3: every request yields exactly one terminal result, and does so
\* eventually, whatever the remote hosts answer.
C3_ExactlyOneOutcomeEventually ==
    /\ [](\A i \in Sequences : Len(outcomes[i]) <= 1)
    /\ <>(\A i \in Sequences : Len(outcomes[i]) = 1)

\* What the claims call an absolute URL, the canonical filename and a bare
\* homepage (scheme://host with no path, with or without a port).
AbsoluteURL(s) ==
    Len(s) >= 3 /\ s[1] \in SchemeTokens /\ s[2] = "://" /\ s[3] \in HostTokens
EndsWithAdsTxt(s) == Len(s) >= 1 /\ s[Len(s)] = "/ads.txt"
BareHomepage(s) ==
    AbsoluteURL(s) /\ (Len(s) = 3 \/ (Len(s) = 4 /\ s[4] \in PortTokens))

\* The hop of sequence i in this step is allowed, or rejected by one of the
\* rules on the target itself: same location, invalid target, bare homepage.
AllowedUnlessTargetRule(i) ==
    \/ Allows(i) /\ state'[i].CurrentURL = Target(i)
    \/ RejectsAs(i, "errRedirectSameDomain") /\ Target(i) = state[i].CurrentURL
    \/ /\ RejectsAs(i, "errRedirctToInvalidAdsTxt")
       /\ ~EndsWithAdsTxt(Target(i)) /\ ~AbsoluteURL(Target(i))
    \/ /\ RejectsAs(i, "errRedirctToMainPage")
       /\ ~EndsWithAdsTxt(Target(i)) /\ BareHomepage(Target(i))

\* The chain of sequence i has stayed in the original root domain so far and
\* the target of this step is in it too.
InDomainHop(i) ==
    /\ Evaluates(i)
    /\ ~state[i].CrossDomainHopUsed
    /\ Resolves(Target(i))
    /\ DomainOf(Target(i)) = requests[i].Domain

\* C4 as stated: every hop of a chain that stays within the original root
\* domain is allowed.
C4_InDomainHopAlwaysAllowed ==
    [][\A i \in Sequences :
          (InDomainHop(i) /\ AbsoluteURL(Target(i))) => Allows(i)]_vars

\* C4 amended: a hop of a chain that stays within the original root domain is
\* never rejected for scope or for the number of hops; it is allowed unless the
\* target is the current URL, or does not end with /ads.txt and is not an
\* absolute URL or is a bare homepage.
C4_InDomainHopNeverOutOfScope ==
    [][\A i \in Sequences : InDomainHop(i) => AllowedUnlessTargetRule(i)]_vars

\* Three hops in a row were allowed inside the original root domain.
C4_Witness ==
    \E i \in Sequences :
        /\ ~state[i].CrossDomainHopUsed
        /\ Cardinality(state[i].VisitedURLs) >= 3
        /\ pc[i] = "send"

\* The first hop out of the original root domain.
FirstCrossDomainHop(i) ==
    /\ Evaluates(i)
    /\ ~state[i].CrossDomainHopUsed
    /\ Resolves(Target(i))
    /\ DomainOf(Target(i)) # requests[i].Domain

\* A hop inside the root domain B that the sequence moved to.
HopInsideDelegate(i) ==
    /\ Evaluates(i)
    /\ state[i].CrossDomainHopUsed
    /\ DomainOf(state[i].CurrentURL) # requests[i].Domain
    /\ Resolves(Target(i))
    /\ DomainOf(Target(i)) = DomainOf(state[i].CurrentURL)

\* The chain so far is the original root domain, then only B.
OnlyDelegateVisited(i) ==
    \A v \in state[i].VisitedURLs : DomainOf(v) = DomainOf(state[i].CurrentURL)

\* C5 as stated: the first cross-domain hop and the later hops inside B are
\* allowed.
C5_DelegatedChainAlwaysAllowed ==
    [][\A i \in Sequences :
          (/\ FirstCrossDomainHop(i) \/ (HopInsideDelegate(i) /\ OnlyDelegateVisited(i))
           /\ AbsoluteURL(Target(i)))
          => Allows(i)]_vars

\* C5 amended: the first cross-domain hop and the later hops inside B are
\* never rejected for scope; each is allowed unless the target is the current
\* URL, or does not end with /ads.txt and is not an absolute URL or is a bare
\* homepage; an allowed first cross-domain hop sets CrossDomainHopUsed.
C5_DelegatedChainNeverOutOfScope ==
    [][\A i \in Sequences :
          /\ (FirstCrossDomainHop(i) \/ HopInsideDelegate(i)) => AllowedUnlessTargetRule(i)
          /\ (FirstCrossDomainHop(i) /\ Allows(i)) => state'[i].CrossDomainHopUsed]_vars

\* One hop to B, then a hop inside B, both allowed.
C5_Witness ==
    \E i \in Sequences :
        /\ state[i].CrossDomainHopUsed
        /\ state[i].VisitedURLs = {U_Bads, U_Bpage}
        /\ state[i].CurrentURL = U_Bpage
        /\ pc[i] = "send"

\* C6: in a batch the handler is invoked at most once per request, and
\* eventually exactly once for every request.
C6_HandlerOncePerRequest ==
    /\ [](\A i \in Sequences : handled[i] <= 1)
    /\ <>(api = "GetMultiple" => \A i \in Sequences : handled[i] = 1)

\* The outcome of fetching req alone when the remote hosts answer with the
\* responses tr, in order (no outcome yet when tr ends before the sequence).
RECURSIVE Alone(_, _, _)
Alone(req, st, tr) ==
    IF cannotSend(st.CurrentURL)
    THEN <<Failure(Errorf("errHTTPClientError", <<<<req.Domain>>, st.CurrentURL>>))>>
    ELSE IF tr = <<>> THEN <<>>
    ELSE LET r == onResponse(req, st, Head(tr))
         IN IF r.out # <<>> THEN r.out ELSE Alone(r.req, r.st, Tail(tr))

\* C7: in a batch, the outcome of each sequence is the outcome of fetching its
\* request alone with the responses that sequence received, whatever the other
\* sequences did.
C7_OutcomeAsIfAlone ==
    \A i \in Sequences :
        (api = "GetMultiple" /\ pc[i] \in {"returned", "done"} /\ ~truncated[i])
        => outcomes[i] = Alone(requests[i], NewRedirectState(requests[i]), trace[i])

\* Request 2 ended in a transport error, requests 1 and 3 in a Response.
C7_Witness ==
    /\ api = "GetMultiple"
    /\ \A i \in Sequences : pc[i] = "done"
    /\ outcomes[2] = <<Failure(Errorf("errHTTPClientError",
                                      <<<<requests[2].Domain>>, requests[2].URL>>))>>
    /\ \A i \in {1, 3} : ~IsError(outcomes[i][1].err) /\ outcomes[i][1].res.Body = AdsBody

\* C8: a redirect whose target is the URL being fetched is rejected as a loop,
\* before every other rule.
C8_SelfRedirectIsLoop ==
    [][\A i \in Sequences :
          (Evaluates(i) /\ Target(i) = state[i].CurrentURL)
          => RejectsAs(i, "errRedirectSameDomain")]_vars

\* A redirect of a bare homepage to itself was rejected as a loop.
C8_Witness ==
    \E i \in Sequences :
        /\ pc[i] = "returned"
        /\ last[i].ok /\ IsRedirect(last[i])
        /\ last[i].Location = state[i].CurrentURL
        /\ BareHomepage(last[i].Location) /\ Len(last[i].Location) = 3
        /\ outcomes[i][1].err.fmt = "errRedirectSameDomain"

\* C9: a redirect target that is a bare scheme://host, with or without a
\* port, is always rejected.
C9_BareHomepageRejected ==
    [][\A i \in Sequences :
          (Evaluates(i) /\ BareHomepage(Target(i)) /\ ~EndsWithAdsTxt(Target(i)))
          => Rejects(i)]_vars

BeginsWithTextPlain(contentType) ==
    Len(contentType) >= 1 /\ contentType[1] = "text/plain"

\* C10: a 2xx response whose Content-Type does not begin with text/plain ends
\* in a content-type error with the body unread; the body is read only when
\* the Content-Type begins with text/plain.
C10_ContentTypeChecked ==
    /\ [][\A i \in Sequences :
            (Receives(i) /\ last'[i].ok /\ Is2xx(last'[i]))
            => IF BeginsWithTextPlain(last'[i].ContentType)
               THEN bodyRead'[i]
               ELSE /\ ~bodyRead'[i]
                    /\ pc'[i] = "returned"
                    /\ outcomes'[i][1].err.fmt = "errHTTPBadContentType"]_vars
    /\ [](\A i \in Sequences :
            bodyRead[i] => last[i].ok /\ Is2xx(last[i])
                           /\ BeginsWithTextPlain(last[i].ContentType))

\* A 200 application/octet-stream response ended in a content-type error.
C10_Witness ==
    \E i \in Sequences :
        /\ pc[i] = "returned"
        /\ last[i].ok /\ last[i].StatusCode = 200
        /\ last[i].ContentType = <<"application/octet-stream">>
        /\ outcomes[i][1].err.fmt = "errHTTPBadContentType"
        /\ ~bodyRead[i]

\* The errors a fetch can end with: calling the remote host, or a redirect the
\* policy rejects.  The error of parseExpires is none of them.
CrawlErrors ==
    {"errHTTPClientError", "errHTTPGeneralError", "errHTTPBadContentType",
     "errFailToParseRedirect", "errRedirctToInvalidAdsTxt",
     "errRedirectToDifferentDomain", "errRedirectSameDomain",
     "errRedirctToMainPage"}

\* The sequence of i receives, in this step, a 2xx response whose Content-Type
\* begins with text/plain and whose Expires header is absent or is not an
\* HTTP date.
ReceivesWithoutUsableExpires(i) ==
    /\ Receives(i)
    /\ last'[i].ok /\ Is2xx(last'[i])
    /\ BeginsWithTextPlain(last'[i].ContentType)
    /\ last'[i].Expires # HTTPDate

C12_DomainFixedAtOrigin ==
    /\ [](\A i \in Sequences : requests[i].Domain = DomainOf(requests[i].URL))
    /\ [][\A i \in Sequences :
             /\ requests'[i] = requests[i]
             /\ Rejects(i) => state'[i].CurrentURL = state[i].CurrentURL
             /\ RejectsAs(i, "errRedirectToDifferentDomain")
                => /\ outcomes'[i][Len(outcomes'[i])].err.args[1]
                         = <<DomainOf(requests[i].URL)>>
                   /\ DomainOf(Target(i)) # DomainOf(requests[i].URL)
             /\ (/\ Evaluates(i) /\ Resolves(Target(i))
                 /\ DomainOf(Target(i)) = DomainOf(requests[i].URL))
                => ~RejectsAs(i, "errRedirectToDifferentDomain")]_vars

\* After at least two hops, the last of them off the original root domain, a
\* redirect was rejected for scope against the root domain of the original URL.
C12_Witness ==
    \E i \in Sequences :
        /\ pc[i] = "returned"
        /\ Cardinality(state[i].VisitedURLs) >= 2
        /\ DomainOf(state[i].CurrentURL) # DomainOf(requests[i].URL)
        /\ requests[i].Domain = DomainOf(requests[i].URL)
        /\ IsError(outcomes[i][1].err)
        /\ outcomes[i][1].err.fmt = "errRedirectToDifferentDomain"
        /\ outcomes[i][1].err.args[1] = <<requests[i].Domain>>

\* The sequence of i is off the original root domain and evaluates, in this
\* step, a redirect to a target of another root domain than the URL it is
\* redirected from.
LeavesDelegate(i) ==
    /\ Evaluates(i)
    /\ DomainOf(state[i].CurrentURL) # requests[i].Domain
    /\ Resolves(Target(i))
    /\ DomainOf(Target(i)) # DomainOf(state[i].CurrentURL)

\* C13 as stated: once off the original root domain, a redirect whose target
\* root domain differs from the domain of the immediately preceding hop is
\* rejected, so A -> B -> A is rejected.
C13_OffDomainOnlySameDomain ==
    [][\A i \in Sequences :
          (LeavesDelegate(i) /\ AbsoluteURL(Target(i)) /\ EndsWithAdsTxt(Target(i)))
          => Rejects(i)]_vars

\* C13 amended: once off the original root domain, a redirect whose target
\* root domain differs from the domain of the immediately preceding hop and
\* from Request.Domain is rejected for scope; a redirect back to the original
\* root domain is not: A -> B -> A is allowed unless the target is rejected
\* on its own (not /ads.txt and not an absolute URL, or a bare homepage).
C13_OffDomainBackOrSameDomain ==
    [][\A i \in Sequences :
          LeavesDelegate(i)
          => IF DomainOf(Target(i)) = requests[i].Domain
             THEN AllowedUnlessTargetRule(i)
             ELSE RejectsAs(i, "errRedirectToDifferentDomain")]_vars

\* A -> B -> A: the sequence went to b.example and came back to a.example,
\* and is about to request the URL it came back to.
C13_Witness ==
    \E i \in Sequences :
        /\ pc[i] = "send"
        /\ requests[i].URL = U_A
        /\ state[i].VisitedURLs = {U_Bads, U_Aads}
        /\ state[i].CurrentURL = U_Aads
        /\ followed[i] = U_Aads

\* The sequence of i issues an HTTP request in this step.
Issues(i) == pc[i] = "send" /\ pc'[i] = "recv"

\* C14: the hops of a sequence are strictly ordered.  At most one request of
\* a sequence is in flight, and none when the next is issued; the first
\* request goes to the original Request.URL; every later request goes to the
\* Location of the immediately preceding response, a redirect that the policy
\* allowed; and the sequence goes on after a redirect only when the policy
\* allowed it and handed back its target.
C14_HopsStrictlyOrdered ==
    /\ [](\A i \in Sequences : inflight[i] <= 1)
    /\ [][\A i \in Sequences :
             /\ Issues(i)
                => /\ inflight[i] = 0
                   /\ sent'[i] = state[i].CurrentURL
                   /\ IF issued[i] = {}
                      THEN last[i] = NoResponseYet /\ sent'[i] = requests[i].URL
                      ELSE /\ last[i].ok /\ IsRedirect(last[i])
                           /\ followed[i] = last[i].Location
                           /\ sent'[i] = last[i].Location
             /\ (Receives(i) /\ pc'[i] = "send")
                => LET hr == handleRedirect([URL |-> state[i].CurrentURL,
                                             Domain |-> requests[i].Domain],
                                            last'[i])
                   IN /\ Evaluates(i)
                      /\ ~IsError(hr.err)
                      /\ hr.url = Target(i)
                      /\ state'[i].CurrentURL = Target(i)]_vars

\* The third request of a sequence is on the wire: it was issued after two
\* redirects were allowed, one after the other, to the target of the second.
C14_Witness ==
    \E i \in Sequences :
        /\ pc[i] = "recv"
        /\ inflight[i] = 1
        /\ Cardinality(state[i].VisitedURLs) = 2
        /\ Cardinality(issued[i]) = 3
        /\ sent[i] = last[i].Location
        /\ sent[i] # requests[i].URL

\* What the policy says of the redirect that the sequence of i evaluates in
\* this step.
Verdict(i) ==
    handleRedirect([URL |-> state[i].CurrentURL, Domain |-> requests[i].Domain],
                   last'[i])

\* The sequence of i ends in this step with an error and nothing else: one
\* more outcome, an Error with no Response, and no request issued.
EndsWithError(i) ==
    /\ pc'[i] = "returned"
    /\ outcomes'[i] = Append(outcomes[i], outcomes'[i][Len(outcomes'[i])])
    /\ IsError(outcomes'[i][Len(outcomes'[i])].err)
    /\ outcomes'[i][Len(outcomes'[i])].res = NoResponse
    /\ issued'[i] = issued[i]
    /\ state'[i] = state[i]

\* C15: every rejection by the policy and every transport error ends the
\* sequence at once with an Error outcome; a rejection hands back no URL to
\* follow; and once a sequence has its outcome it issues no further request.
C15_ErrorEndsSequence ==
    [][\A i \in Sequences :
          /\ (Evaluates(i) /\ IsError(Verdict(i).err))
             => EndsWithError(i) /\ Verdict(i).url = EmptyString
          /\ (Receives(i) /\ ~last'[i].ok) => EndsWithError(i)
          /\ (pc[i] = "send" /\ pc'[i] # "send" /\ cannotSend(state[i].CurrentURL))
             => EndsWithError(i)
          /\ Len(outcomes[i]) >= 1
             => /\ issued'[i] = issued[i]
                /\ inflight[i] = 0 /\ inflight'[i] = 0
                /\ state'[i] = state[i]
                /\ outcomes'[i] = outcomes[i]]_vars

\* One sequence of a batch was rejected by the policy after a hop, another
\* ended with a transport error; both were handed to the handler and neither
\* has a request in flight.
C15_Witness ==
    /\ api = "GetMultiple"
    /\ \E i, j \in Sequences :
          /\ pc[i] = "done" /\ pc[j] = "done"
          /\ last[i].ok /\ IsRedirect(last[i])
          /\ Cardinality(state[i].VisitedURLs) >= 1
          /\ IsError(outcomes[i][1].err)
          /\ ~last[j].ok
          /\ outcomes[j][1].err.fmt = "errHTTPClientError"
          /\ inflight[i] = 0 /\ inflight[j] = 0

\* C16: a redirect whose target has no resolvable root domain is rejected with
\* a reason of its own (failure to resolve the redirect), which is given for
\* no other target; only the loop check takes precedence, in a run and for
\* every Location value taken as the URL being fetched.
C16_UnresolvableTargetRejected ==
    /\ [][\A i \in Sequences :
             /\ (Evaluates(i) /\ ~Resolves(Target(i)))
                => IF Target(i) = state[i].CurrentURL
                   THEN RejectsAs(i, "errRedirectSameDomain")
                   ELSE RejectsAs(i, "errFailToParseRedirect")
             /\ RejectsAs(i, "errFailToParseRedirect") => ~Resolves(Target(i))]_vars
    /\ [](\A loc \in Locations :
             ~Resolves(loc)
             => handleRedirect([URL |-> loc, Domain |-> "a.example"],
                               Resp(302, loc, EmptyString, EmptyString, EmptyString)).err.fmt
                = "errRedirectSameDomain")

\* A redirect to the relative reference /ads.txt, which ends with /ads.txt
\* and has no host, was rejected for failure to resolve its root domain.
C16_Witness ==
    \E i \in Sequences :
        /\ pc[i] = "returned"
        /\ last[i].ok /\ IsRedirect(last[i])
        /\ last[i].Location = U_RelAds
        /\ ~Resolves(U_RelAds)
        /\ outcomes[i][1].err.fmt = "errFailToParseRedirect"

\* C17: a redirect target that does not end with /ads.txt and is not a
\* well-formed absolute URL is never followed: the policy rejects it, and as
\* an invalid target when it resolves to the original root domain and is not
\* the URL being fetched.
C17_MalformedTargetRejected ==
    [][\A i \in Sequences :
          (Evaluates(i) /\ ~EndsWithAdsTxt(Target(i)) /\ ~AbsoluteURL(Target(i)))
          => /\ Rejects(i)
             /\ state'[i] = state[i]
             /\ (/\ Resolves(Target(i))
                 /\ DomainOf(Target(i)) = requests[i].Domain
                 /\ Target(i) # state[i].CurrentURL)
                => RejectsAs(i, "errRedirctToInvalidAdsTxt")]_vars

\* A redirect to a.example/page, which has no scheme, was rejected as an
\* invalid target.
C17_Witness ==
    \E i \in Sequences :
        /\ pc[i] = "returned"
        /\ last[i].ok /\ IsRedirect(last[i])
        /\ last[i].Location = U_NoSchemePage
        /\ U_NoSchemePage \notin state[i].VisitedURLs
        /\ outcomes[i][1].err.fmt = "errRedirctToInvalidAdsTxt"

\* The sequence of i ends in this step with a Response.
Succeeds(i) ==
    /\ Receives(i)
    /\ Len(outcomes'[i]) = Len(outcomes[i]) + 1
    /\ ~IsError(outcomes'[i][Len(outcomes'[i])].err)

\* C18: on success FinalURL is the URL of the last request issued: the
\* original Request.URL when no redirect was followed, otherwise the Location
\* of the last redirect the policy allowed.
C18_FinalURLIsLastRequested ==
    [][\A i \in Sequences :
          Succeeds(i)
          => LET final == outcomes'[i][Len(outcomes'[i])].res.FinalURL
             IN /\ final = sent[i]
                /\ IF state[i].VisitedURLs = {}
                   THEN final = requests[i].URL /\ followed[i] = EmptyString
                   ELSE final = followed[i]]_vars

\* Get of http://a.example, redirected to http://a.example/ads.txt, ended
\* with a 200 text/plain Response whose FinalURL is http://a.example/ads.txt.
C18_Witness ==
    \E i \in Sequences :
        /\ api = "Get"
        /\ pc[i] = "returned"
        /\ requests[i].URL = U_A
        /\ state[i].VisitedURLs = {U_Aads}
        /\ followed[i] = U_Aads
        /\ last[i].ok /\ last[i].StatusCode = 200
        /\ ~IsError(outcomes[i][1].err)
        /\ outcomes[i][1].res.FinalURL = U_Aads
        /\ outcomes[i][1].res.StatusCode = 200

\* The target of the redirect that the sequence of i evaluates in this step
\* is out of scope: outside the original root domain, when the URL redirected
\* from is outside it too and in another root domain than the target.
OutOfScope(i) ==
    /\ DomainOf(Target(i)) # requests[i].Domain
    /\ DomainOf(state[i].CurrentURL) # requests[i].Domain
    /\ DomainOf(state[i].CurrentURL) # DomainOf(Target(i))

\* C19: a redirect target that ends with /ads.txt skips the tests of
\* well-formedness and of the homepage: whenever it differs from the URL
\* being fetched, its root domain resolves and it is in scope, it is allowed
\* and is, unchanged, the next URL, even when it is not a well-formed
\* absolute URL.
C19_AdsTxtSuffixSkipsValidation ==
    [][\A i \in Sequences :
          (/\ Evaluates(i)
           /\ EndsWithAdsTxt(Target(i))
           /\ Target(i) # state[i].CurrentURL
           /\ Resolves(Target(i))
           /\ ~OutOfScope(i))
          => /\ Allows(i)
             /\ Verdict(i).url = Target(i)
             /\ state'[i].CurrentURL = Target(i)]_vars

\* The redirect to a.example/ads.txt, which has no scheme, was allowed and
\* a.example/ads.txt is the next URL of the sequence.
C19_Witness ==
    \E i \in Sequences :
        /\ pc[i] = "send"
        /\ last[i].ok /\ IsRedirect(last[i])
        /\ last[i].Location = U_NoSchemeAds
        /\ ~AbsoluteURL(U_NoSchemeAds)
        /\ state[i].CurrentURL = U_NoSchemeAds

====
